---- MODULE Spec2Model ----
(***************************************************************************)
(* treeeee: src/main.rs.  main() configures a file-system walker, folds    *)
(* the items it yields into a ptree TreeBuilder while tracking the open    *)
(* nesting depth and three counters, renders the tree and prints a summary.*)
(*                                                                         *)
(* The walker (ignore::Walk) and the tree builder (ptree::TreeBuilder) are *)
(* libraries.  The walker is the environment: it yields items in pre-order *)
(* and its choices are the inputs of the model.  The builder is modelled   *)
(* by what its calls do: a root item, a list of appended nodes and `level`,*)
(* the number of begin_child calls not yet matched by end_child.           *)
(***************************************************************************)
EXTENDS Integers, Sequences, FiniteSets, TLC

\* Bounds of the model.
MaxItems == 4        \* items the walker yields in one run, the first included
MaxDepth == 3        \* deepest nesting of an entry below the target directory

VARIABLES
    args,            \* the parsed command line: ignore_errors, depth
    overflow_checks, \* the build: TRUE when integer overflow panics (debug)
    walker,          \* the walker's position in the file system
    yielded,         \* every item the walker has yielded so far, in order
    st,              \* the run of main(): builder, depth, counters, output
    paired,          \* TRUE when a second run is checked beside the first
    twin             \* the second run: same items, opposite ignore_errors

vars == <<args, overflow_checks, walker, yielded, st, paired, twin>>

-----------------------------------------------------------------------------
(* Command line, Args                                                      *)

\* Option<usize>: `some` tells Some from None.
None == [some |-> FALSE, val |-> 0]
Some(n) == [some |-> TRUE, val |-> n]

\* A limit of MaxDepth or more excludes nothing the model can nest.
DepthOptions == {None} \cup {Some(n) : n \in 0..(MaxDepth - 1)}

Args == [ignore_errors : BOOLEAN, depth : DepthOptions]

-----------------------------------------------------------------------------
(* The walker's items.  An Ok item is a DirEntry: depth(), file_type() and *)
(* for a symlink whether read_link() succeeds.  `id` stands for the        *)
(* entry's file name (it is the item's position in `yielded`), `parent` is *)
(* the id of the directory the entry lies in.  An Err item carries only    *)
(* its id.                                                                 *)

\* Option<std::fs::FileType>: `known` is FALSE for None, which the walker
\* gives only for standard input (the target "-"); at most one of the three
\* tests is true of a file type.
StdType(known, dir, file, symlink) ==
    [known |-> known, is_dir |-> dir, is_file |-> file, is_symlink |-> symlink]

NoType == StdType(FALSE, FALSE, FALSE, FALSE)
DirType == StdType(TRUE, TRUE, FALSE, FALSE)
RegularType == StdType(TRUE, FALSE, TRUE, FALSE)
LinkType == StdType(TRUE, FALSE, FALSE, TRUE)
SpecialType == StdType(TRUE, FALSE, FALSE, FALSE)

\* enum FileType and impl From<std::fs::FileType> for FileType
FileType == {"Directory", "File", "Symlink", "Other"}

From(file_type) ==
    IF file_type.is_dir THEN "Directory"
    ELSE IF file_type.is_file THEN "File"
    ELSE IF file_type.is_symlink THEN "Symlink"
    ELSE "Other"

Entry(id, file_type, depth, parent, link_ok) ==
    [id |-> id, ok |-> TRUE, file_type |-> file_type, depth |-> depth,
     parent |-> parent, link_ok |-> link_ok]

ErrItem(id) ==
    [id |-> id, ok |-> FALSE, file_type |-> NoType, depth |-> 0,
     parent |-> 0, link_ok |-> FALSE]

NextId == Len(yielded) + 1

\* max_depth(args.depth): the walker yields nothing nested deeper.
WithinLimit(d) == args.depth.some => d <= args.depth.val

\* What the walker may yield first.  Normally the target itself, at depth
\* 0: a directory, a file, or standard input.  A target that cannot be
\* opened gives an Err and nothing else.  An error found in an ignore file
\* of a parent directory of the target is yielded as an Err BEFORE the
\* target's own entry, which then follows.
FirstItems ==
    {Entry(NextId, t, 0, 0, FALSE) : t \in {DirType, RegularType, NoType}}
      \cup {ErrItem(NextId)}

\* The walker after its first item.
WalkerAfterFirst(item, parents_err) ==
    IF item.ok
      THEN [state |-> "walk",
            stack |-> IF item.file_type.is_dir THEN <<item.id>> ELSE <<>>]
      ELSE IF parents_err
             THEN [state |-> "root", stack |-> <<>>]
             ELSE [state |-> "end", stack |-> <<>>]

\* The entries the walker may yield next: in state "root" the target's own
\* entry (a directory: only directories have their parents' ignore files
\* read); in state "walk" a child of any directory it is still inside of.
NextEntries(file_type, link_ok) ==
    IF walker.state = "root"
      THEN {Entry(NextId, t, 0, 0, link_ok) : t \in {file_type} \cap {DirType}}
    ELSE IF walker.state = "walk"
      THEN {Entry(NextId, file_type, d, walker.stack[d], link_ok) :
                d \in {x \in 1..Len(walker.stack) :
                          x <= MaxDepth /\ WithinLimit(x)}}
    ELSE {}

\* The walker after yielding an entry: it has left every directory deeper
\* than the entry, and has entered the entry when it is a directory.
WalkerAfter(e) ==
    IF e.depth = 0
      THEN [state |-> "walk", stack |-> <<e.id>>]
      ELSE [state |-> "walk",
            stack |-> SubSeq(walker.stack, 1, e.depth) \o
                        (IF e.file_type.is_dir THEN <<e.id>> ELSE <<>>)]

-----------------------------------------------------------------------------
(* ptree::TreeBuilder                                                      *)

\* A node of the tree under construction: the entry it shows and the node
\* it was appended to (0 is the root item made by TreeBuilder::new).
Node(id, parent) == [id |-> id, parent |-> parent]

Children(tree, p) == {i \in 1..Len(tree) : tree[i].parent = p}

LastChild(tree, p) ==
    CHOOSE i \in Children(tree, p) : \A j \in Children(tree, p) : j <= i

\* append_child walks from the root through the last child of each item,
\* `level` times; a missing child is an unwrap() of None.  <<n>> is the
\* item reached, <<>> the panic.  level is a u32: the model keeps a u32 in
\* the congruent range -2^31..2^31-1, so a negative n stands for a count
\* above 2^31, more steps than any tree has levels.
RECURSIVE Descend(_, _, _)
Descend(tree, node, n) ==
    IF n = 0 THEN <<node>>
    ELSE IF Children(tree, node) = {} THEN <<>>
    ELSE Descend(tree, LastChild(tree, node), n - 1)

Panic(s) == [s EXCEPT !.pc = "panicked"]

append_child(s, id) ==
    LET at == Descend(s.tree, 0, s.level) IN
    IF at = <<>> THEN Panic(s)
    ELSE [s EXCEPT !.tree = Append(@, Node(id, at[1]))]

begin_child(s, id) ==
    LET a == append_child(s, id) IN
    IF a.pc = "panicked" THEN a ELSE [a EXCEPT !.level = @ + 1]

add_empty_child(s, id) == append_child(s, id)

\* self.level -= 1 on a u32: at 0 it panics when overflow is checked and
\* wraps to u32::MAX (kept as -1) when it is not.
end_child(s, checks) ==
    IF s.level = 0 /\ checks THEN Panic(s)
    ELSE [s EXCEPT !.level = @ - 1]

-----------------------------------------------------------------------------
(* main(): the body of the loop                                            *)

InitRun ==
    [tree |-> <<>>, level |-> 0, current_depth |-> 1,
     files_count |-> 0, dirs_count |-> 0, symlink_count |-> 0,
     stderr |-> <<>>, stdout |-> <<>>, pc |-> "skip"]

\* for _ in 0..n { tree.end_child(); }
RECURSIVE EndChildren(_, _, _)
EndChildren(s, n, checks) ==
    IF n = 0 \/ s.pc = "panicked" THEN s
    ELSE EndChildren(end_child(s, checks), n - 1, checks)

\* Mutant: a single end_child() where the code loops.
CloseLevels_Once(s, entry_depth, checks) ==
    IF entry_depth < s.current_depth
      THEN LET c == end_child(s, checks) IN
           IF c.pc = "panicked" THEN c
           ELSE [c EXCEPT !.current_depth = entry_depth]
      ELSE s

\* Mutant: current_depth is lowered but no level of the tree is closed.
CloseLevels_Forget(s, entry_depth, checks) ==
    IF entry_depth < s.current_depth
      THEN [s EXCEPT !.current_depth = entry_depth]
      ELSE s

\* if entry_depth < current_depth { ...; current_depth = entry_depth; }
CloseLevels(s, entry_depth, checks) ==
    IF entry_depth < s.current_depth
      THEN LET c == EndChildren(s, s.current_depth - entry_depth, checks) IN
           IF c.pc = "panicked" THEN c
           ELSE [c EXCEPT !.current_depth = entry_depth]
      ELSE s

OnDirectory(s, e) ==
    LET b == begin_child(s, e.id) IN
    IF b.pc = "panicked" THEN b
    ELSE [b EXCEPT !.current_depth = @ + 1, !.dirs_count = @ + 1]

OnFile(s, e) ==
    LET a == add_empty_child(s, e.id) IN
    IF a.pc = "panicked" THEN a
    ELSE [a EXCEPT !.files_count = @ + 1]

\* Mutant: a symlink is not counted as a file.
OnSymlink_NotAFile(s, e, ignore_errors) ==
    IF ~e.link_ok
      THEN IF ~ignore_errors THEN [s EXCEPT !.stderr = Append(@, e.id)]
           ELSE s
      ELSE LET a == add_empty_child(s, e.id) IN
           IF a.pc = "panicked" THEN a
           ELSE [a EXCEPT !.symlink_count = @ + 1]

\* Mutant: `continue` sits inside `if !args.ignore_errors`, so with the
\* flag set an unreadable link falls through and is added and counted.
OnSymlink_NoContinue(s, e, ignore_errors) ==
    IF ~e.link_ok /\ ~ignore_errors
      THEN [s EXCEPT !.stderr = Append(@, e.id)]
      ELSE LET a == add_empty_child(s, e.id) IN
           IF a.pc = "panicked" THEN a
           ELSE [a EXCEPT !.files_count = @ + 1, !.symlink_count = @ + 1]

\* Mutant: the counters are incremented before read_link() is tried.
OnSymlink_CountsFirst(s, e, ignore_errors) ==
    LET n == [s EXCEPT !.files_count = @ + 1, !.symlink_count = @ + 1] IN
    IF ~e.link_ok
      THEN IF ~ignore_errors THEN [n EXCEPT !.stderr = Append(@, e.id)]
           ELSE n
      ELSE add_empty_child(n, e.id)

\* read_link() is evaluated while the label is formatted, before
\* add_empty_child is called: on Err the arm prints and continues.
OnSymlink(s, e, ignore_errors) ==
    IF ~e.link_ok
      THEN IF ~ignore_errors THEN [s EXCEPT !.stderr = Append(@, e.id)]
           ELSE s
      ELSE LET a == add_empty_child(s, e.id) IN
           IF a.pc = "panicked" THEN a
           ELSE [a EXCEPT !.files_count = @ + 1, !.symlink_count = @ + 1]

OnOther(s, e) ==
    LET a == add_empty_child(s, e.id) IN
    IF a.pc = "panicked" THEN a
    ELSE [a EXCEPT !.files_count = @ + 1]

OnErr(s, item, ignore_errors) ==
    IF ~ignore_errors THEN [s EXCEPT !.stderr = Append(@, item.id)] ELSE s

\* Mutant: the link is read before the depth bookkeeping, so an unreadable
\* link leaves the loop body with the levels above it still open.
Body_LinkFirst(s, item, ignore_errors, checks) ==
    IF ~item.ok THEN OnErr(s, item, ignore_errors)
    ELSE IF item.file_type.known /\ From(item.file_type) = "Symlink"
              /\ ~item.link_ok
      THEN OnSymlink(s, item, ignore_errors)
    ELSE LET c == CloseLevels(s, item.depth, checks) IN
         IF c.pc = "panicked" \/ ~item.file_type.known THEN c
         ELSE LET file_type == From(item.file_type) IN
              CASE file_type = "Directory" -> OnDirectory(c, item)
                [] file_type = "File"      -> OnFile(c, item)
                [] file_type = "Symlink"   -> OnSymlink(c, item, ignore_errors)
                [] file_type = "Other"     -> OnOther(c, item)

\* One iteration of `for entry in walker.skip(1)`.  An entry with no file
\* type (None => continue) has had its depth bookkeeping done.
Body(s, item, ignore_errors, checks) ==
    IF ~item.ok THEN OnErr(s, item, ignore_errors)
    ELSE LET c == CloseLevels(s, item.depth, checks) IN
         IF c.pc = "panicked" \/ ~item.file_type.known THEN c
         ELSE LET file_type == From(item.file_type) IN
              CASE file_type = "Directory" -> OnDirectory(c, item)
                [] file_type = "File"      -> OnFile(c, item)
                [] file_type = "Symlink"   -> OnSymlink(c, item, ignore_errors)
                [] file_type = "Other"     -> OnOther(c, item)

-----------------------------------------------------------------------------
(* The two runs.  `st` runs with args.ignore_errors, `twin` (when paired)  *)
(* with the opposite flag, over the same items and the same build.         *)

Both(run, other) ==
    /\ st' = run
    /\ twin' = IF paired THEN other ELSE twin

Init0 ==
    /\ args \in Args
    /\ overflow_checks \in BOOLEAN
    /\ walker = [state |-> "start", stack |-> <<>>]
    /\ yielded = <<>>
    /\ st = InitRun
    /\ twin = InitRun

Init == Init0 /\ paired = FALSE

InitPair == Init0 /\ paired = TRUE

\* walker.skip(1): the first item is taken from the walker and dropped,
\* whatever it is.
SkipStep(s) == [s EXCEPT !.pc = "loop"]

SkipFirst ==
    /\ st.pc = "skip"
    /\ \E item \in FirstItems, parents_err \in BOOLEAN :
          /\ yielded' = Append(yielded, item)
          /\ walker' = WalkerAfterFirst(item, parents_err)
    /\ Both(SkipStep(st), SkipStep(twin))
    /\ UNCHANGED <<args, overflow_checks, paired>>

Iterate(item) ==
    /\ st.pc = "loop"
    /\ Len(yielded) < MaxItems
    /\ yielded' = Append(yielded, item)
    /\ Both(Body(st, item, args.ignore_errors, overflow_checks),
            Body(twin, item, ~args.ignore_errors, overflow_checks))
    /\ UNCHANGED <<args, overflow_checks, paired>>

IterErr ==
    /\ walker.state = "walk"
    /\ Iterate(ErrItem(NextId))
    /\ UNCHANGED walker

IterDirectory ==
    \E e \in NextEntries(DirType, FALSE) :
        Iterate(e) /\ walker' = WalkerAfter(e)

IterFile ==
    \E e \in NextEntries(RegularType, FALSE) :
        Iterate(e) /\ walker' = WalkerAfter(e)

\* read_link() succeeds
IterSymlink ==
    \E e \in NextEntries(LinkType, TRUE) :
        Iterate(e) /\ walker' = WalkerAfter(e)

\* read_link() fails
IterSymlinkErr ==
    \E e \in NextEntries(LinkType, FALSE) :
        Iterate(e) /\ walker' = WalkerAfter(e)

IterOther ==
    \E e \in NextEntries(SpecialType, FALSE) :
        Iterate(e) /\ walker' = WalkerAfter(e)

\* The walker returns None: the loop is over.
EndStep(s) == [s EXCEPT !.pc = "render"]

LoopEnd ==
    /\ st.pc = "loop"
    /\ walker.state # "root"
    /\ walker' = [walker EXCEPT !.state = "end"]
    /\ Both(EndStep(st), EndStep(twin))
    /\ UNCHANGED <<args, overflow_checks, yielded, paired>>

\* print_tree(&tree.build()).map_err(|err| eprintln!(..)).ok()
\* 0 on stderr is the renderer's error, printed whatever the flag.
RenderStep(s, rendered) ==
    IF rendered
      THEN [s EXCEPT !.stdout = Append(@, "tree"), !.pc = "summary"]
      ELSE [s EXCEPT !.stderr = Append(@, 0), !.pc = "summary"]

PrintTree ==
    /\ st.pc = "render"
    /\ \E rendered \in BOOLEAN :
         Both(RenderStep(st, rendered), RenderStep(twin, rendered))
    /\ UNCHANGED <<args, overflow_checks, walker, yielded, paired>>

\* println!("\n{} directories, {} files{}", ...)
SummaryStep(s) ==
    [s EXCEPT !.stdout = Append(@, "summary"), !.pc = "exit"]

PrintSummary ==
    /\ st.pc = "summary"
    /\ Both(SummaryStep(st), SummaryStep(twin))
    /\ UNCHANGED <<args, overflow_checks, walker, yielded, paired>>

\* ExitCode::SUCCESS
ExitStep(s) == [s EXCEPT !.pc = "success"]

Exit ==
    /\ st.pc = "exit"
    /\ Both(ExitStep(st), ExitStep(twin))
    /\ UNCHANGED <<args, overflow_checks, walker, yielded, paired>>

Next ==
    \/ SkipFirst
    \/ IterErr
    \/ IterDirectory
    \/ IterFile
    \/ IterSymlink
    \/ IterSymlinkErr
    \/ IterOther
    \/ LoopEnd
    \/ PrintTree
    \/ PrintSummary
    \/ Exit

Spec == Init /\ [][Next]_vars

SpecPair == InitPair /\ [][Next]_vars

-----------------------------------------------------------------------------
(* Properties                                                              *)

Count(P(_)) == Cardinality({i \in 1..Len(yielded) : P(i)})

BadLink(e) == e.ok /\ e.file_type.is_symlink /\ ~e.link_ok

\* The item the step in progress takes from the walker, when it takes one.
Taken == yielded'[Len(yielded')]

\* A step that is one iteration of the loop.
Iteration == st.pc = "loop" /\ Len(yielded') = Len(yielded) + 1

AfterLoop == st.pc \in {"render", "summary", "exit", "success"}

Counters(s) == <<s.dirs_count, s.files_count, s.symlink_count>>

Max(a, b) == IF a > b THEN a ELSE b

Min(a, b) == IF a < b THEN a ELSE b

\* The errors of walker items and links a run has printed (0 is the
\* renderer's).
IsItemError(x) == x # 0

Reported(s) == SelectSeq(s.stderr, IsItemError)

\* C1: once the loop is over, the directories counter is the number of
\* directory entries yielded other than the target itself, the files counter
\* the number of yielded entries that are no directory and were not skipped
\* (by skip(1) or for an unreadable link), the symlinks counter the number of
\* symlinks whose target was read.
C1_Counts ==
    AfterLoop =>
      LET IsDir(i) == yielded[i].ok /\ yielded[i].file_type.is_dir
                        /\ yielded[i].depth >= 1
          IsFile(i) == i >= 2 /\ yielded[i].ok /\ ~BadLink(yielded[i])
                         /\ yielded[i].file_type.known
                         /\ ~yielded[i].file_type.is_dir
          IsLink(i) == i >= 2 /\ yielded[i].ok /\ yielded[i].link_ok
                         /\ yielded[i].file_type.is_symlink
      IN  /\ st.dirs_count = Count(IsDir)
          /\ st.files_count = Count(IsFile)
          /\ st.symlink_count = Count(IsLink)

C1_Witness ==
    /\ st.pc = "success"
    /\ Counters(st) = <<1, 2, 1>>

\* C2: the tree handed to the renderer has one node for each entry yielded
\* after the first item and not skipped, in the order they were yielded, and
\* each node hangs from the node of the directory its entry lies in (from the
\* root item when that directory is the target).
C2_TreeShape ==
    st.pc = "render" =>
      LET tree == st.tree
          Shown(i) == i >= 2 /\ yielded[i].ok /\ ~BadLink(yielded[i])
                        /\ yielded[i].file_type.known
          ids == [n \in 1..Len(tree) |-> tree[n].id]
          all == [i \in 1..Len(yielded) |-> i]
      IN  /\ ids = SelectSeq(all, Shown)
          /\ \A n \in 1..Len(tree) :
               LET e == yielded[tree[n].id] IN
               IF e.depth = 1
                 THEN tree[n].parent = 0 /\ yielded[e.parent].depth = 0
                 ELSE /\ tree[n].parent \in 1..Len(tree)
                      /\ tree[tree[n].parent].id = e.parent

C2_Witness ==
    /\ st.pc = "render"
    /\ Len(st.tree) = 3
    /\ st.tree[2].parent = 1
    /\ st.tree[3].parent = 0

\* C3: an iteration over an Ok entry of depth d with open depth c closes
\* c - d levels when d < c and none otherwise, then appends the entry (unless
\* it is an unreadable link) under the item that is then open, and leaves the
\* open depth at min(c, d), plus one when the entry is a directory.
C3_DepthBookkeeping ==
    [][(Iteration /\ Taken.ok) =>
         LET c == st.current_depth
             d == Taken.depth
             closed == Max(c - d, 0)
             dir == IF Taken.file_type.is_dir THEN 1 ELSE 0
             at == Descend(st.tree, 0, st.level - closed)
         IN  /\ st'.level = st.level - closed + dir
             /\ st'.current_depth = Min(c, d) + dir
             /\ ~BadLink(Taken) =>
                  /\ at # <<>>
                  /\ st'.tree = Append(st.tree, Node(Taken.id, at[1]))]_vars

\* C4: without the flag every Err the walker yields, the first item
\* included, and every unreadable link is printed to standard error; with
\* the flag none is; either way the item adds no node to the tree.
C4_ErrorsPrinted ==
    st.pc # "skip" =>
      LET all == [i \in 1..Len(yielded) |-> i]
          Failed(i) == ~yielded[i].ok \/ BadLink(yielded[i])
      IN  /\ Reported(st) = IF args.ignore_errors THEN <<>>
                            ELSE SelectSeq(all, Failed)
          /\ \A n \in 1..Len(st.tree) : ~Failed(st.tree[n].id)

\* C5: two runs over the same items that differ only in the flag have the
\* same tree, open depth, counters, standard output and position, and the
\* same renderer errors; the run with the flag reports no item error.
C5_FlagOnlySilences ==
    paired =>
      LET quiet == IF args.ignore_errors THEN st ELSE twin
          IsRender(x) == x = 0
      IN  /\ twin.tree = st.tree
          /\ twin.level = st.level
          /\ twin.current_depth = st.current_depth
          /\ Counters(twin) = Counters(st)
          /\ twin.stdout = st.stdout
          /\ twin.pc = st.pc
          /\ SelectSeq(twin.stderr, IsRender) = SelectSeq(st.stderr, IsRender)
          /\ Reported(quiet) = <<>>

C5_Witness ==
    /\ paired
    /\ st.pc = "success"
    /\ st.tree # <<>>
    /\ Len(Reported(st)) # Len(Reported(twin))
    /\ \E i \in 1..Len(yielded) : BadLink(yielded[i])

\* C6: an iteration over a symlink whose target cannot be read adds no node
\* and increments no counter, and the loop goes on.
C6_UnreadableLinkSkipped ==
    [][(Iteration /\ BadLink(Taken)) =>
         /\ st'.tree = st.tree
         /\ Counters(st') = Counters(st)
         /\ st'.pc = "loop"]_vars

C6_Witness ==
    /\ st.pc = "success"
    /\ Len(yielded) = 4
    /\ BadLink(yielded[3])
    /\ yielded[4].ok
    /\ Len(st.tree) = 2

\* C7: no run panics, and a run that has ended has taken every item the
\* walker yielded, has rendered the tree or reported the renderer's error,
\* and has printed the summary last.
C7_AlwaysSucceeds ==
    /\ st.pc # "panicked"
    /\ st.pc = "success" =>
         /\ walker.state = "end"
         /\ st.stdout \in {<<"tree", "summary">>, <<"summary">>}
         /\ st.stdout = <<"summary">> => 0 \in {st.stderr[i] : i \in 1..Len(st.stderr)}

\* The depth of a node in the tree: 1 for a child of the root item.
RECURSIVE NodeDepth(_, _)
NodeDepth(tree, n) ==
    IF n = 0 THEN 0 ELSE 1 + NodeDepth(tree, tree[n].parent)

\* C8: with a depth limit D no node of the tree lies deeper than D and every
\* counted entry is such a node; every directory entry of depth D, the target
\* apart, is a node, is counted as a directory, and has no children.
C8_DepthLimit ==
    args.depth.some =>
      LET D == args.depth.val
          tree == st.tree
          DirNodes == {n \in 1..Len(tree) : yielded[tree[n].id].file_type.is_dir}
      IN  /\ \A n \in 1..Len(tree) : NodeDepth(tree, n) <= D
          /\ st.dirs_count + st.files_count = Len(tree)
          /\ st.dirs_count = Cardinality(DirNodes)
          /\ st.symlink_count <= st.files_count
          /\ \A i \in 1..Len(yielded) :
               (yielded[i].ok /\ yielded[i].file_type.is_dir
                  /\ yielded[i].depth = D /\ D >= 1) =>
                 \E n \in DirNodes :
                    /\ tree[n].id = i
                    /\ NodeDepth(tree, n) = D
                    /\ Children(tree, n) = {}

C8_Witness ==
    /\ args.depth = Some(1)
    /\ st.pc = "success"
    /\ Len(st.tree) = 3
    /\ yielded[st.tree[1].id].file_type.is_dir
    /\ yielded[st.tree[2].id].file_type.is_dir
    /\ yielded[st.tree[3].id].file_type.is_file

\* C9: in every state current_depth is at least 1, the builder has
\* current_depth - 1 levels open, end_child has never been called with no
\* level open, and the walker can yield no entry deeper than current_depth.
C9_OpenLevels ==
    /\ st.pc # "panicked"
    /\ st.current_depth >= 1
    /\ st.level = st.current_depth - 1
    /\ \A t \in {DirType, RegularType, LinkType, SpecialType}, l \in BOOLEAN :
         \A e \in NextEntries(t, l) :
            st.pc = "loop" => e.depth <= st.current_depth

\* C10: taking an Err from the walker leaves the builder, current_depth and
\* the counters as they are; an unreadable link leaves the counters and the
\* nodes as they are, and closes the levels above its depth.
C10_ErrorFrames ==
    [][/\ (Len(yielded') = Len(yielded) + 1 /\ ~Taken.ok) =>
            /\ st'.tree = st.tree
            /\ st'.level = st.level
            /\ st'.current_depth = st.current_depth
            /\ Counters(st') = Counters(st)
       /\ (Iteration /\ BadLink(Taken)) =>
            /\ st'.tree = st.tree
            /\ Counters(st') = Counters(st)
            /\ st'.level = st.level - Max(st.current_depth - Taken.depth, 0)
            /\ st'.current_depth = Min(st.current_depth, Taken.depth)]_vars

C10_Witness ==
    /\ st.pc = "loop"
    /\ Len(yielded) = 4
    /\ yielded[2].ok /\ yielded[2].file_type.is_dir
    /\ ~yielded[3].ok
    /\ BadLink(yielded[4]) /\ yielded[4].depth = 1
    /\ st.level = 0
    /\ st.current_depth = 1

====
